---- MODULE Spec2Model ----
(***************************************************************************)
(* The ingestion pipeline of src/Q1/data_processor.py: process_apis fans   *)
(* out fetch_data coroutines under the module-level semaphore              *)
(* api_rate_limiter, then hands every fetched payload to a thread pool     *)
(* that runs transform_data and store_data, and collects the row counts    *)
(* into the report.  Runs are started by src/Q1/main.py (/process) on one  *)
(* event loop, so several runs may overlap in their fetch stage.           *)
(***************************************************************************)
EXTENDS Integers, Sequences, FiniteSets, TLC

(* ------------------------------ bounds -------------------------------- *)
\* longest source list handed to one run
MaxSources == 2
\* configured capacity of the rate limiter (env API_RATE_LIMIT)
API_RATE_LIMIT == 1
\* configured size of the worker pool (env WORKER_THREADS)
WORKER_THREADS == 2

(* -------------------------- program constants ------------------------- *)
\* backoff.on_exception(..., max_tries=3)
max_tries == 3
\* store_data: chunk_size = 1000
chunk_size == 1000
\* ApiConfig.__init__: retry_attempts: int = 3
default_retry_attempts == 3

\* the runs of process_apis in one process: run 1 alone, or runs 1 and 2
\* started by two requests
Runs == {1, 2}
TableNames == {"t1", "t2"}

\* The fields of ApiConfig the pipeline reads (label, table_name) and the
\* retry budget it stores.  Three descriptions are enough for two sources to
\* share nothing, a table only, a label only, or both.
Config(l, t) == [label |-> l, table_name |-> t,
                 retry_attempts |-> default_retry_attempts]
ApiConfig == {Config("a", "t1"), Config("b", "t2"), Config("b", "t1")}

Last(s) == s[Len(s)]

RECURSIVE SeqsUpTo(_, _)
SeqsUpTo(S, n) ==
    IF n = 0 THEN {<<>>}
    ELSE LET shorter == SeqsUpTo(S, n - 1)
         IN  shorter \cup {Append(s, x) : s \in {t \in shorter : Len(t) = n - 1}, x \in S}

\* the source lists a caller may submit
ApiLists == {l \in SeqsUpTo(ApiConfig, MaxSources) : Len(l) >= 1}

(* ------------------------------ payloads ------------------------------ *)
\* A decoded response body, by the shape the pipeline distinguishes:
\*   "none"   Python None (also a JSON null body)
\*   "empty"  a falsy body: {} or []
\*   "scalar" a truthy body that is neither a list nor an object
\*   "list"   a list of n flat objects, n >= 1
None == [shape |-> "none", n |-> 0]
RecordCounts == {1, 2500}
Bodies == {[shape |-> "empty", n |-> 0], [shape |-> "scalar", n |-> 0]}
          \cup {[shape |-> "list", n |-> k] : k \in RecordCounts}

\* Python truthiness of a payload (`if raw_data:` / `if not raw_data:`)
Truthy(p) == p.shape \in {"scalar", "list"}

\* What the HTTP exchange of one attempt can do.
FailureKinds == {"transport", "timeout", "non200", "badjson"}
Responses == {[kind |-> "ok", body |-> b] : b \in Bodies}
             \cup {[kind |-> k, body |-> None] : k \in FailureKinds}

(* ------------------------------- state -------------------------------- *)
VARIABLES
    pc,                \* pc[r]: where run r of process_apis is
    apis,              \* apis[r]: the source list of run r
    api_rate_limiter,  \* the module-level semaphore: 0 is None, else its id
    sem,               \* sem[s]: free slots of semaphore s
    fetch,             \* fetch[r][i]: the fetch_data task of source i
    unit,              \* unit[r][i]: the transform+store unit of source i
    futures,           \* futures[r]: the submitted units, in submission order
    next_future,       \* next_future[r]: position of the collection loop
    results,           \* results[r]: the report, a dict in insertion order
    tables,            \* the database: one entry per table name
    completed,         \* completed[r]: the units of run r in the order they ended
    call,              \* the call of a pure function under study, with its result
    sched              \* the scheduler process of scheduler.py

\* the state of the pipeline
pipeline == <<pc, apis, api_rate_limiter, sem, fetch, unit, futures, next_future,
              results, tables, completed>>

vars == <<pc, apis, api_rate_limiter, sem, fetch, unit, futures, next_future,
          results, tables, completed, call, sched>>

\* rows are tagged with the unit that wrote them; Old tags the rows a
\* table held before the process started
Old == <<0, 0>>
\* the longest source list of any run: one source more than the pool has
\* workers when the pool is the subject
MaxUnits == IF MaxSources > WORKER_THREADS THEN MaxSources ELSE WORKER_THREADS + 1
Owners == {Old} \cup (Runs \X (1 .. MaxUnits))
\* rows of a table that exists when the process starts
OldRows == 2

NoFetch == [st |-> "pending", sem |-> 0, tries |-> 0, log |-> <<>>,
            raised |-> FALSE, payload |-> None]
NoUnit == [st |-> "none", payload |-> None, n |-> 0, listed |-> FALSE,
           if_exists |-> "none", off |-> 0, success |-> FALSE, chunks |-> <<>>, failed_at |-> 0, ret |-> 0]
NoTable == [exists |-> FALSE, rows |-> [o \in Owners |-> 0]]
OldTable == [exists |-> TRUE, rows |-> [o \in Owners |-> IF o = Old THEN OldRows ELSE 0]]
\* the databases a process may find: a fresh one, or one where an earlier
\* process left table t1
Databases == {[t \in TableNames |-> NoTable],
              [t \in TableNames |-> IF t = "t1" THEN OldTable ELSE NoTable]}

NoCall == [fn |-> "none"]

\* scheduler.py before run_scheduler is entered: running = True (line 14),
\* no job yet.  file and apis are the file read and the list loaded by the
\* last job, called whether that job called process_apis.
SchedOff == [pc |-> "off", running |-> TRUE, sig |-> "none", ctx |-> "none",
             jobs |-> 0, file |-> [exists |-> FALSE, parses |-> FALSE, entries |-> <<>>],
             apis |-> <<>>, called |-> FALSE, last |-> "none"]

\* the process has started: no run yet
InitPipeline ==
    /\ sched = SchedOff
    /\ completed = [r \in Runs |-> <<>>]
    /\ pc = [r \in Runs |-> "idle"]
    /\ apis = [r \in Runs |-> <<>>]
    /\ api_rate_limiter = 0
    /\ sem = [s \in Runs |-> 0]
    /\ fetch = [r \in Runs |-> <<>>]
    /\ unit = [r \in Runs |-> <<>>]
    /\ futures = [r \in Runs |-> <<>>]
    /\ next_future = [r \in Runs |-> 1]
    /\ results = [r \in Runs |-> <<>>]
    /\ tables \in Databases

Init ==
    /\ InitPipeline
    /\ call = NoCall

Sources(r) == 1 .. Len(apis[r])

\* From the first submit to the return of process_apis nothing is awaited
\* (future.result() blocks), so the event loop runs no other coroutine.
LoopBlocked == \E r \in Runs : pc[r] = "pool"

(* ---------------------------- process_apis ---------------------------- *)
\* asyncio.Semaphore(limit_per_second), stored in the module-level name
init_rate_limiter(r, limit_per_second) ==
    /\ api_rate_limiter' = r
    /\ sem' = [sem EXCEPT ![r] = limit_per_second]

\* process_apis up to the creation of the fetch coroutines.  db_ok = FALSE
\* is initialize_database raising, which process_apis does not catch.
ProcessApisStart(r, list, db_ok) ==
    /\ pc[r] = "idle"
    /\ ~LoopBlocked
    /\ apis' = [apis EXCEPT ![r] = list]
    /\ fetch' = [fetch EXCEPT ![r] = [i \in 1 .. Len(list) |-> NoFetch]]
    /\ unit' = [unit EXCEPT ![r] = [i \in 1 .. Len(list) |-> NoUnit]]
    /\ IF db_ok
       THEN /\ init_rate_limiter(r, API_RATE_LIMIT)
            /\ results' = [results EXCEPT ![r] = <<>>]
            /\ pc' = [pc EXCEPT ![r] = "started"]
       ELSE /\ pc' = [pc EXCEPT ![r] = "raised"]
            /\ UNCHANGED <<api_rate_limiter, sem, results>>
    /\ UNCHANGED <<sched, call, completed, futures, next_future, tables>>

\* asyncio.gather schedules the tasks back to back; each one's first step
\* reads the module-level semaphore and enters `async with` on it.
GatherStart(r) ==
    /\ pc[r] = "started"
    /\ ~LoopBlocked
    /\ fetch' = [fetch EXCEPT ![r] =
                    [i \in Sources(r) |->
                        [@[i] EXCEPT !.st = "waiting", !.sem = api_rate_limiter]]]
    /\ pc' = [pc EXCEPT ![r] = "gather"]
    /\ UNCHANGED <<sched, call, completed, apis, api_rate_limiter, sem, unit, futures, next_future,
                   results, tables>>

(* ----------------------------- fetch_data ----------------------------- *)
\* `if api_rate_limiter: async with api_rate_limiter:` a fetch goes on when
\* there is no limiter (None) or the semaphore it entered has a free slot
\* (faulty variant: the limiter is never waited for)
AcquirableAlways(s) == TRUE

Acquirable(s) == s = 0 \/ sem[s] > 0

\* The slot is taken and _do_fetch sends the request: one more attempt.
FetchAcquire(r, i) ==
    /\ pc[r] = "gather"
    /\ ~LoopBlocked
    /\ i \in Sources(r)
    /\ fetch[r][i].st = "waiting"
    /\ LET s == fetch[r][i].sem
       IN  /\ Acquirable(s)
           /\ sem' = IF s # 0 THEN [sem EXCEPT ![s] = @ - 1] ELSE sem
    /\ fetch' = [fetch EXCEPT ![r][i].st = "in_fetch", ![r][i].tries = @ + 1]
    /\ UNCHANGED <<sched, call, completed, pc, apis, api_rate_limiter, unit, futures, next_future,
                   results, tables>>

\* _do_fetch: what it returns or raises for one response
do_fetch(resp) ==
    CASE resp.kind = "ok"     -> [raised |-> FALSE, exc |-> "none", payload |-> resp.body]
      [] resp.kind = "non200" -> [raised |-> FALSE, exc |-> "none", payload |-> None]
      [] OTHER                -> [raised |-> TRUE, exc |-> resp.kind, payload |-> None]

\* (faulty variant: `except aiohttp.ClientError`, which lets timeouts and decode
\* errors through)
ExceptClientErrorOnly(exc) == exc = "transport"

\* `except Exception` in fetch_data: every error of the exchange is one
ExceptException(exc) == TRUE

\* the body of fetch_data: the try/except around _do_fetch
fetch_data_body(resp) ==
    LET out == do_fetch(resp)
    IN  IF out.raised /\ ExceptException(out.exc)
        THEN [raised |-> FALSE, exc |-> "none", payload |-> None]
        ELSE out

\* the exception classes the backoff decorator retries on
RetryOn == {"transport", "timeout"}

\* backoff.on_exception: call again when a listed exception escapes the
\* decorated function and tries are left
BackoffRetries(out, tries) ==
    out.raised /\ out.exc \in RetryOn /\ tries < max_tries

\* (faulty variant: release() after the call, outside any finally)
SlotsAfterExitOk(free, resp) == IF resp.kind \in {"ok", "non200"} THEN free + 1 ELSE free

\* leaving `async with api_rate_limiter`: __aexit__ releases the slot on a
\* return and on an exception alike
SlotsAfterExit(free, resp) == free + 1

\* The response of the attempt in flight arrives: the slot is released on
\* leaving `async with`, then the decorator returns, raises or retries.
FetchResponse(r, i, resp) ==
    /\ pc[r] = "gather"
    /\ ~LoopBlocked
    /\ i \in Sources(r)
    /\ fetch[r][i].st = "in_fetch"
    /\ LET s == fetch[r][i].sem
           out == fetch_data_body(resp)
           log == Append(fetch[r][i].log, resp)
       IN  /\ sem' = IF s # 0 THEN [sem EXCEPT ![s] = SlotsAfterExit(@, resp)] ELSE sem
           /\ fetch' = [fetch EXCEPT ![r][i] =
                 IF BackoffRetries(out, fetch[r][i].tries)
                 THEN [@ EXCEPT !.st = "waiting", !.sem = api_rate_limiter,
                                !.log = log]
                 ELSE [@ EXCEPT !.st = "done", !.log = log,
                                !.raised = out.raised, !.payload = out.payload]]
    /\ UNCHANGED <<sched, call, completed, pc, apis, api_rate_limiter, unit, futures, next_future,
                   results, tables>>

\* The task of run r is cancelled while it awaits gather (the event loop
\* shutting down, or whoever holds the task).  gather cancels the fetches
\* still running; asyncio.CancelledError is not an Exception, so the `except
\* Exception` of fetch_data lets it through, `async with` gives the slot
\* back on the way out, and process_apis, which has no handler either, ends
\* with the error: no unit is submitted and nothing is returned.
Cancel(r) ==
    /\ pc[r] \in {"started", "gather"}
    /\ ~LoopBlocked
    /\ sem' = [s \in DOMAIN sem |->
                  sem[s] + Cardinality({i \in Sources(r) :
                               fetch[r][i].st = "in_fetch" /\ fetch[r][i].sem = s})]
    /\ fetch' = [fetch EXCEPT ![r] =
                    [i \in Sources(r) |->
                        IF @[i].st = "done" THEN @[i]
                        ELSE [@[i] EXCEPT !.st = "cancelled"]]]
    /\ pc' = [pc EXCEPT ![r] = "cancelled"]
    /\ UNCHANGED <<sched, call, completed, apis, api_rate_limiter, unit, futures,
                   next_future, results, tables>>

(* ----------------------- the worker pool stage ------------------------ *)
\* (faulty variant: a wait that returns with the first fetch to finish)
AnyFetched(r) == \E i \in Sources(r) : fetch[r][i].st = "done"

\* `await asyncio.gather(*tasks, return_exceptions=True)` has every result
AllFetched(r) == \A i \in Sources(r) : fetch[r][i].st = "done"

\* (faulty variant: a unit for every source, whatever its fetch gave)
SubmittedAlways(r, i) == TRUE

\* the loop over api_results: an exception is skipped, a falsy payload is
\* skipped, every other source gets a unit
Submitted(r, i) == ~fetch[r][i].raised /\ Truthy(fetch[r][i].payload)

\* gather has returned: the units are submitted in the order of the sources
SubmitUnits(r) ==
    /\ pc[r] = "gather"
    /\ ~LoopBlocked
    /\ AllFetched(r)
    /\ LET Test(i) == Submitted(r, i)
       IN  futures' = [futures EXCEPT ![r] =
                          SelectSeq([i \in Sources(r) |-> i], Test)]
    /\ unit' = [unit EXCEPT ![r] =
                   [i \in Sources(r) |->
                       IF Submitted(r, i)
                       THEN [@[i] EXCEPT !.st = "queued",
                                         !.payload = fetch[r][i].payload]
                       ELSE @[i]]]
    /\ next_future' = [next_future EXCEPT ![r] = 1]
    /\ pc' = [pc EXCEPT ![r] = "pool"]
    /\ UNCHANGED <<sched, call, completed, apis, api_rate_limiter, sem, fetch, results, tables>>

\* transform_data, by the number of records it returns
transform_data(raw_data) ==
    IF ~Truthy(raw_data) THEN 0
    ELSE IF raw_data.shape # "list" THEN 0
    ELSE raw_data.n

\* a unit that ends is appended to the order of completion
Completion(r, i) ==
    completed' = [completed EXCEPT ![r] =
                     IF unit'[r][i].st = "done" THEN Append(@, i) ELSE @]

Executing(r) == {i \in Sources(r) : unit[r][i].st \in {"transformed", "storing"}}

\* (faulty variant: a pool that starts a thread for every submitted unit)
WorkerIdleAlways(r) == TRUE

\* ThreadPoolExecutor(max_workers=WORKER_THREADS): a worker is free
WorkerIdle(r) == Cardinality(Executing(r)) < WORKER_THREADS

\* the executor hands queued units to idle workers first in, first out
FirstQueued(r, i) ==
    \E k \in 1 .. Len(futures[r]) :
        /\ futures[r][k] = i
        /\ \A j \in 1 .. (k - 1) : unit[r][futures[r][j]].st # "queued"

\* (faulty variant: the store entered with no record)
HasRecordsAlways(n) == TRUE

\* `if transformed_data:` in the unit, and `if not data: return False` at the
\* head of store_data: nothing is stored without a record
HasRecords(n) == n > 0

\* process_data_in_thread_pool: a worker takes the unit and transforms; an
\* empty result returns 0 at once
UnitTransform(r, i) ==
    /\ pc[r] = "pool"
    /\ i \in Sources(r)
    /\ unit[r][i].st = "queued"
    /\ FirstQueued(r, i)
    /\ WorkerIdle(r)
    /\ LET n == transform_data(unit[r][i].payload)
       IN  unit' = [unit EXCEPT ![r][i] =
                       IF HasRecords(n)
                       THEN [@ EXCEPT !.st = "transformed", !.n = n]
                       ELSE [@ EXCEPT !.st = "done", !.n = 0, !.ret = 0]]
    /\ Completion(r, i)
    /\ UNCHANGED <<sched, call, pc, apis, api_rate_limiter, sem, fetch, futures, next_future,
                   results, tables>>

Min(a, b) == IF a < b THEN a ELSE b

\* (faulty variant: the length returned whatever store_data returned)
UnitReturnLen(success, n) == n

\* process_data_in_thread_pool: len(transformed_data) when store_data
\* returned True, else 0
UnitReturn(success, n) == IF success THEN n ELSE 0

\* (faulty variant: the first chunk appended whether or not the table is listed)
FirstIfExistsAppend(table_exists) == "append"

\* store_data: the mode of the first chunk, from the table list read once
FirstIfExists(table_exists) == IF table_exists THEN "replace" ELSE "append"

\* get_db_engine and store_data up to the chunk loop; listed is
\* `api_config.table_name in inspector.get_table_names()`.  ok = FALSE is
\* the database refusing the connection: store_data returns False (or
\* create_engine raises) and the unit returns 0.
StoreInspect(r, i, ok) ==
    /\ pc[r] = "pool"
    /\ i \in Sources(r)
    /\ unit[r][i].st = "transformed"
    /\ LET listed == tables[apis[r][i].table_name].exists
       IN  unit' = [unit EXCEPT ![r][i] =
                       IF ok
                       THEN [@ EXCEPT !.st = "storing", !.off = 0,
                                      !.listed = listed,
                                      !.if_exists = FirstIfExists(listed)]
                       ELSE [@ EXCEPT !.st = "done",
                                      !.ret = UnitReturn(FALSE, unit[r][i].n)]]
    /\ Completion(r, i)
    /\ UNCHANGED <<sched, call, pc, apis, api_rate_limiter, sem, fetch, futures, next_future,
                   results, tables>>

\* rows of df.iloc[i:i+chunk_size]
ChunkLen(total_rows, i) == Min(chunk_size, total_rows - i)

\* (faulty variant: every chunk written with if_exists='replace')
ChunkIfExistsReplace(i, if_exists) == "replace"

\* if_exists of the chunk at offset i
ChunkIfExists(i, if_exists) == IF i > 0 THEN "append" ELSE if_exists

\* DataFrame.to_sql: a missing table is created; an existing one is dropped
\* and created again under 'replace', kept under 'append'
to_sql(tb, owner, len, if_exists) ==
    IF tb.exists /\ if_exists = "replace"
    THEN [exists |-> TRUE, rows |-> [o \in Owners |-> IF o = owner THEN len ELSE 0]]
    ELSE [exists |-> TRUE, rows |-> [tb.rows EXCEPT ![owner] = @ + len]]

\* one pass of the chunk loop; ok = FALSE is to_sql raising, which ends
\* store_data with False and the unit with 0.  Each chunk is one to_sql
\* call: a chunk that fails leaves the table as it was.
StoreChunk(r, i, ok) ==
    /\ pc[r] = "pool"
    /\ i \in Sources(r)
    /\ unit[r][i].st = "storing"
    /\ LET u == unit[r][i]
           t == apis[r][i].table_name
           len == ChunkLen(u.n, u.off)
           mode == ChunkIfExists(u.off, u.if_exists)
       IN  IF ok
           THEN /\ tables' = [tables EXCEPT ![t] = to_sql(@, <<r, i>>, len, mode)]
                /\ unit' = [unit EXCEPT ![r][i] =
                     [@ EXCEPT !.off = u.off + chunk_size,
                               !.chunks = Append(u.chunks,
                                   [off |-> u.off, len |-> len, if_exists |-> mode,
                                    created |-> ~tables[t].exists]),
                               !.st = IF u.off + chunk_size < u.n THEN "storing" ELSE "done",
                               !.success = ~(u.off + chunk_size < u.n),
                               !.ret = IF u.off + chunk_size < u.n THEN 0
                                      ELSE UnitReturn(TRUE, u.n)]]
           ELSE /\ tables' = tables
                /\ unit' = [unit EXCEPT ![r][i] =
                     [@ EXCEPT !.st = "done", !.ret = UnitReturn(FALSE, u.n),
                               !.failed_at = Len(u.chunks) + 1]]
    /\ Completion(r, i)
    /\ UNCHANGED <<sched, call, pc, apis, api_rate_limiter, sem, fetch, futures, next_future,
                   results>>

\* results[key] = val on a dict kept in insertion order
DictSet(d, key, val) ==
    IF \E j \in 1 .. Len(d) : d[j].key = key
    THEN [j \in 1 .. Len(d) |-> IF d[j].key = key THEN [key |-> key, val |-> val] ELSE d[j]]
    ELSE Append(d, [key |-> key, val |-> val])

HasKey(d, key) == \E j \in 1 .. Len(d) : d[j].key = key
DictGet(d, key) == d[CHOOSE j \in 1 .. Len(d) : d[j].key = key].val

\* (faulty variant: the result read without waiting for the unit)
ResultReadyAlways(u) == TRUE

\* future.result() returns once the unit has ended
ResultReady(u) == u.st = "done"

\* the collection loop: future.result() of the next future, in list order
Collect(r) ==
    /\ pc[r] = "pool"
    /\ next_future[r] <= Len(futures[r])
    /\ LET i == futures[r][next_future[r]]
       IN  /\ ResultReady(unit[r][i])
           /\ results' = [results EXCEPT ![r] =
                             DictSet(@, apis[r][i].label, unit[r][i].ret)]
    /\ next_future' = [next_future EXCEPT ![r] = @ + 1]
    /\ UNCHANGED <<sched, call, completed, pc, apis, api_rate_limiter, sem, fetch, unit, futures, tables>>

\* every future is collected: process_apis returns results
ProcessApisReturn(r) ==
    /\ pc[r] = "pool"
    /\ next_future[r] > Len(futures[r])
    /\ pc' = [pc EXCEPT ![r] = "done"]
    /\ UNCHANGED <<sched, call, completed, apis, api_rate_limiter, sem, fetch, unit, futures, next_future,
                   results, tables>>

(* --------------------------- specifications --------------------------- *)
\* the steps of the runs R, with source lists from Lists and responses
\* from Resps
Step(R, Lists, Resps) ==
    \/ \E r \in R, list \in Lists, db_ok \in BOOLEAN : ProcessApisStart(r, list, db_ok)
    \/ \E r \in R : GatherStart(r)
    \/ \E r \in R : Cancel(r)
    \/ \E r \in R, i \in 1 .. MaxUnits : FetchAcquire(r, i)
    \/ \E r \in R, i \in 1 .. MaxUnits, resp \in Resps : FetchResponse(r, i, resp)
    \/ \E r \in R : SubmitUnits(r)
    \/ \E r \in R, i \in 1 .. MaxUnits : UnitTransform(r, i)
    \/ \E r \in R, i \in 1 .. MaxUnits, ok \in BOOLEAN : StoreInspect(r, i, ok)
    \/ \E r \in R, i \in 1 .. MaxUnits, ok \in BOOLEAN : StoreChunk(r, i, ok)
    \/ \E r \in R : Collect(r)
    \/ \E r \in R : ProcessApisReturn(r)

\* one run of process_apis, over every source list and every response
Next == Step({1}, ApiLists, Responses)

Spec == Init /\ [][Next]_vars

\* the inputs of the runs studied for termination: full source lists, and
\* fetches that fail, bring nothing to transform, or bring one record
FairLists == {l \in ApiLists : Len(l) = MaxSources}
FairResponses == {resp \in Responses :
                     \/ resp.kind = "transport"
                     \/ resp.kind = "ok" /\ resp.body.shape = "scalar"
                     \/ resp.kind = "ok" /\ resp.body = [shape |-> "list", n |-> 1]}

\* What the event loop and the pool do on their own: a ready coroutine is
\* resumed, every HTTP exchange ends (ClientTimeout(total=60)), a free worker
\* takes the next queued unit and runs it to its return, and the collection
\* loop goes on.  Starting a run and cancelling it are the caller's choice.
Progress ==
    \E r \in {1} :
        \/ GatherStart(r)
        \/ \E i \in 1 .. MaxUnits : FetchAcquire(r, i)
        \/ \E i \in 1 .. MaxUnits, resp \in FairResponses : FetchResponse(r, i, resp)
        \/ SubmitUnits(r)
        \/ \E i \in 1 .. MaxUnits : UnitTransform(r, i)
        \/ \E i \in 1 .. MaxUnits, ok \in BOOLEAN : StoreInspect(r, i, ok)
        \/ \E i \in 1 .. MaxUnits, ok \in BOOLEAN : StoreChunk(r, i, ok)
        \/ Collect(r)
        \/ ProcessApisReturn(r)

\* one run in which every fetch and every unit terminates
NextFair == Step({1}, FairLists, FairResponses)

SpecFair == Init /\ [][NextFair]_vars /\ WF_vars(Progress)

\* overlapping runs (several /process requests on one event loop), each with
\* more sources than the limiter has slots; every fetch succeeds with one
\* record
OverlapLists == {l \in ApiLists : /\ Len(l) = MaxSources
                                   /\ \A k \in 1 .. Len(l) : l[k] = Config("a", "t1")}
OverlapResponses == {resp \in Responses : resp.body = [shape |-> "list", n |-> 1]}
NextOverlap == Step(Runs, OverlapLists, OverlapResponses)

SpecOverlap == Init /\ [][NextOverlap]_vars

\* one run with one source more than the pool has workers; every fetch
\* succeeds with one record, so every source gets a unit
PoolLists == {[k \in 1 .. (WORKER_THREADS + 1) |-> Config("a", "t1")]}
NextPool == Step({1}, PoolLists, OverlapResponses)

SpecPool == Init /\ [][NextPool]_vars

(* ------------------------------ ApiConfig ----------------------------- *)
\* Strings are sequences of one-character strings.  The constructor only
\* tests query, label and table_name for truthiness, so for them None and ""
\* are one value here, the empty string.  It calls url.split when there is
\* no label, which None does not have: NoneUrl is a url of None (a JSON
\* null), as falsy as "".
NoneUrl == <<"None">>

\* str.split(sep): the pieces between the occurrences of sep, left to right
RECURSIVE Split(_, _)
Split(s, sep) ==
    LET n == Len(sep)
        hits == {k \in 1 .. (Len(s) - n + 1) : SubSeq(s, k, k + n - 1) = sep}
    IN  IF hits = {} THEN <<s>>
        ELSE LET k == CHOOSE h \in hits : \A g \in hits : h <= g
             IN  <<SubSeq(s, 1, k - 1)>> \o Split(SubSeq(s, k + n, Len(s)), sep)

\* str.lower() on the letters of the alphabet used here
LowerChar(c) ==
    CASE c = "A" -> "a" [] c = "B" -> "b" [] c = "L" -> "l" [] OTHER -> c
Lower(s) == [k \in 1 .. Len(s) |-> LowerChar(s[k])]

\* str.replace(old, new) for one-character old and new
Replace(s, old, new) == [k \in 1 .. Len(s) |-> IF s[k] = old THEN new ELSE s[k]]

\* the URLs a caller may give: scheme, "//", host, path; or nothing
Schemes == {<<>>, <<"h", ":", "/", "/">>}
Hosts == {<<"A", ".", "b">>, <<"a", "-", "B">>}
Paths == {<<>>, <<"/", "p">>, <<"/", "p", "/", "/", "q">>}
Urls == {<<>>, NoneUrl} \cup {sc \o h \o pa : sc \in Schemes, h \in Hosts, pa \in Paths}

\* the keyword arguments of ApiConfig(...) the constructor looks at
Kwargs == [url : Urls, api_type : {"REST", "GraphQL", "SOAP", "rest"},
           query : {<<>>, <<"q">>}, label : {<<>>, <<"L", ".", "x">>},
           table_name : {<<>>, <<"t">>}]

Raises(exc) == [raised |-> TRUE, exc |-> exc, label |-> <<>>, table_name |-> <<>>]

\* ApiConfig.__init__: the defaults are computed first, then the three checks
ApiConfigInit(kw) ==
    LET label == IF kw.label # <<>> THEN kw.label
                 ELSE Split(Last(Split(kw.url, <<"/", "/">>)), <<"/">>)[1]
        table_name == IF kw.table_name # <<>> THEN kw.table_name
                      ELSE Replace(Replace(Lower(label), ".", "_"), "-", "_")
    IN  IF kw.url = NoneUrl /\ kw.label = <<>> THEN Raises("AttributeError")
        ELSE IF kw.url \in {<<>>, NoneUrl} THEN Raises("ValueError")
        ELSE IF kw.api_type \notin {"REST", "GraphQL"} THEN Raises("ValueError")
        ELSE IF kw.api_type = "GraphQL" /\ kw.query = <<>> THEN Raises("ValueError")
        ELSE [raised |-> FALSE, exc |-> "none", label |-> label,
              table_name |-> table_name]

\* a caller is about to construct an ApiConfig from some keyword arguments
InitConfig ==
    /\ InitPipeline
    /\ call \in {[fn |-> "ApiConfig", st |-> "called", arg |-> kw,
                   result |-> Raises("none")] : kw \in Kwargs}

\* the constructor runs
Construct ==
    /\ call.fn = "ApiConfig"
    /\ call.st = "called"
    /\ call' = [call EXCEPT !.st = "returned", !.result = ApiConfigInit(call.arg)]
    /\ UNCHANGED <<pipeline, sched>>

NextConfig == Construct

SpecConfig == InitConfig /\ [][NextConfig]_vars

(* ------------------------- main.py: POST /process --------------------- *)
\* the elements of a request body: a good URL, "" or null, with or without
\* a label
GoodUrl == <<"h", ":", "/", "/", "a", "-", "B", "/", "p">>
RequestElements == {kw \in Kwargs : /\ kw.url \in {<<>>, NoneUrl, GoodUrl}
                                     /\ kw.api_type # "rest"
                                     /\ kw.table_name = <<>>}
\* longest request body
MaxBody == 2
RequestBodies == SeqsUpTo(RequestElements, MaxBody)

\* trigger_processing: ApiConfig(**api_dict) for each element in turn; the
\* first ValueError ends the request with 400, any other exception with 500
\* (the outer `except Exception`); only after the loop is the task made
trigger_processing(apis_body) ==
    LET outs == [k \in 1 .. Len(apis_body) |-> ApiConfigInit(apis_body[k])]
        bad == {k \in 1 .. Len(apis_body) : outs[k].raised}
    IN  IF bad = {}
        THEN [status |-> 200, task |-> TRUE,
              apis |-> [k \in 1 .. Len(apis_body) |-> outs[k].label]]
        ELSE LET k == CHOOSE b \in bad : \A c \in bad : b <= c
             IN  [status |-> IF outs[k].exc = "ValueError" THEN 400 ELSE 500,
                  task |-> FALSE, apis |-> <<>>]

\* a client is about to post a body
InitRequest ==
    /\ InitPipeline
    /\ call \in {[fn |-> "trigger_processing", st |-> "called", arg |-> b,
                   result |-> [status |-> 0, task |-> FALSE, apis |-> <<>>]] :
                      b \in RequestBodies}

\* the handler runs to its response
TriggerProcessing ==
    /\ call.fn = "trigger_processing"
    /\ call.st = "called"
    /\ call' = [call EXCEPT !.st = "returned",
                            !.result = trigger_processing(call.arg)]
    /\ UNCHANGED <<pipeline, sched>>

NextRequest == TriggerProcessing

SpecRequest == InitRequest /\ [][NextRequest]_vars

(* ----------------------------- scheduler.py --------------------------- *)
\* most jobs one scheduler process starts
MaxJobs == 2
\* longest list in api_config.json
MaxEntries == 2

\* the entries api_config.json may hold: two that construct, two that do not
FileEntries == {kw \in Kwargs : /\ kw.label = <<>> /\ kw.table_name = <<>>
                                 /\ kw.query = <<"q">>
                                 /\ \/ kw.url = GoodUrl /\ kw.api_type \in {"REST", "GraphQL", "SOAP"}
                                    \/ kw.url = NoneUrl /\ kw.api_type = "REST"}

\* api_config.json: missing, not JSON, or a list of entries
Files == {[exists |-> FALSE, parses |-> FALSE, entries |-> <<>>],
          [exists |-> TRUE, parses |-> FALSE, entries |-> <<>>]}
         \cup {[exists |-> TRUE, parses |-> TRUE, entries |-> e] :
                   e \in SeqsUpTo(FileEntries, MaxEntries)}

\* the four sources built in the else branch, by kind, query and label
DefaultKwargs ==
    << [url |-> GoodUrl, api_type |-> "REST", query |-> <<>>,
        label |-> <<"posts">>, table_name |-> <<>>],
       [url |-> GoodUrl, api_type |-> "REST", query |-> <<>>,
        label |-> <<"breweries">>, table_name |-> <<>>],
       [url |-> GoodUrl, api_type |-> "GraphQL", query |-> <<"q">>,
        label |-> <<"rick_and_morty_characters">>, table_name |-> <<>>],
       [url |-> GoodUrl, api_type |-> "GraphQL", query |-> <<"q">>,
        label |-> <<"countries">>, table_name |-> <<>>] >>

\* (faulty variant: the entries that do not construct are skipped)
LoadedValid(outs) ==
    LET Good(out) == ~out.raised
    IN  SelectSeq(outs, Good)

\* the list comprehension inside try/except Exception: one entry that
\* raises loses the whole list
Loaded(outs) == IF \E k \in 1 .. Len(outs) : outs[k].raised THEN <<>> ELSE outs

\* load_api_configs
load_api_configs(file) ==
    IF ~file.exists
    THEN [k \in 1 .. Len(DefaultKwargs) |-> ApiConfigInit(DefaultKwargs[k])]
    ELSE IF ~file.parses THEN <<>>
    ELSE Loaded([k \in 1 .. Len(file.entries) |-> ApiConfigInit(file.entries[k])])

\* where the caller of run_data_processing_job goes on: schedule_jobs
\* returns into the loop, run_pending into time.sleep
AfterJob(ctx) == IF ctx = "initial" THEN "loop" ELSE "sleep"

\* run_scheduler up to the call of the first job in schedule_jobs
RunScheduler ==
    /\ sched.pc = "off"
    /\ sched' = [sched EXCEPT !.pc = "job", !.ctx = "initial"]
    /\ UNCHANGED <<pipeline, call>>

\* run_data_processing_job up to asyncio.run: the file is read; an empty
\* list ends the job, any other is handed to process_apis
JobBegin(file) ==
    /\ sched.pc = "job"
    /\ LET apis_loaded == load_api_configs(file)
       IN  sched' = [sched EXCEPT
               !.jobs = @ + 1, !.file = file, !.apis = apis_loaded,
               !.called = apis_loaded # <<>>,
               !.last = IF apis_loaded = <<>> THEN "skipped" ELSE "running",
               !.pc = IF apis_loaded = <<>> THEN AfterJob(sched.ctx) ELSE "in_job"]
    /\ UNCHANGED <<pipeline, call>>

\* asyncio.run(process_apis(apis)) ends: it returned, or it raised and the
\* except Exception of the job logged it.  What process_apis does inside is
\* the subject of Spec.
JobEnd(outcome) ==
    /\ sched.pc = "in_job"
    /\ sched' = [sched EXCEPT !.last = outcome, !.pc = AfterJob(sched.ctx)]
    /\ UNCHANGED <<pipeline, call>>

\* (faulty variant: a loop that does not read the flag)
ContinueAlways(running) == TRUE

\* `while running:`
Continue(running) == running

LoopCheck ==
    /\ sched.pc = "loop"
    /\ sched' = [sched EXCEPT !.pc = IF Continue(sched.running) THEN "pending"
                                     ELSE "exited"]
    /\ UNCHANGED <<pipeline, call>>

\* schedule.run_pending(): the job is called when its hour has come
RunPending(due) ==
    /\ sched.pc = "pending"
    /\ sched' = IF due /\ sched.jobs < MaxJobs
                THEN [sched EXCEPT !.pc = "job", !.ctx = "pending"]
                ELSE [sched EXCEPT !.pc = "sleep"]
    /\ UNCHANGED <<pipeline, call>>

\* time.sleep(1)
Sleep ==
    /\ sched.pc = "sleep"
    /\ sched' = [sched EXCEPT !.pc = "loop"]
    /\ UNCHANGED <<pipeline, call>>

\* signal_handler: SIGINT or SIGTERM arrives, wherever the main thread is
SignalHandler(sig) ==
    /\ sched.pc \notin {"off", "exited"}
    /\ sched.running
    /\ sched' = [sched EXCEPT !.running = FALSE, !.sig = sig]
    /\ UNCHANGED <<pipeline, call>>

NextScheduler ==
    \/ RunScheduler
    \/ \E file \in Files : JobBegin(file)
    \/ \E outcome \in {"returned", "raised"} : JobEnd(outcome)
    \/ LoopCheck
    \/ \E due \in BOOLEAN : RunPending(due)
    \/ Sleep
    \/ \E sig \in {"SIGINT", "SIGTERM"} : SignalHandler(sig)

SpecScheduler == Init /\ [][NextScheduler]_vars

\* what the main thread does on its own: every job ends and the loop turns;
\* signals come when they come
SchedulerRuns ==
    \/ RunScheduler
    \/ \E file \in Files : JobBegin(file)
    \/ \E outcome \in {"returned", "raised"} : JobEnd(outcome)
    \/ LoopCheck
    \/ \E due \in BOOLEAN : RunPending(due)
    \/ Sleep

SpecSchedulerFair == Init /\ [][NextScheduler]_vars /\ WF_vars(SchedulerRuns)

(* ---------------------------- transform_data -------------------------- *)
\* A decoded JSON value is a record [t, v]: t its type, v its content.  A
\* string is a sequence of tokens (words and punctuation marks), a list a
\* sequence of values, an object a sequence of <<key, value>> pairs in
\* insertion order, a key one word.
JNull == [t |-> "null", v |-> <<>>]
JNum(n) == [t |-> "num", v |-> n]
JStr(tokens) == [t |-> "str", v |-> tokens]
JList(items) == [t |-> "list", v |-> items]
JObj(pairs) == [t |-> "obj", v |-> pairs]

IsList(x) == x.t = "list"
IsDict(x) == x.t = "obj"

\* Python truthiness of a decoded value: `not raw_data`
Falsy(x) ==
    CASE x.t = "null" -> TRUE
      [] x.t = "num" -> x.v = 0
      [] OTHER -> x.v = <<>>

\* key in d, d[key] and next(iter(d), None) on a dict
HasField(d, key) == \E k \in 1 .. Len(d.v) : d.v[k][1] = key
Field(d, key) == d.v[CHOOSE k \in 1 .. Len(d.v) : d.v[k][1] = key][2]
FirstKey(d) == IF d.v = <<>> THEN "" ELSE d.v[1][1]

Returns(value) == [raised |-> FALSE, exc |-> "none", value |-> value]
Throws(exc) == [raised |-> TRUE, exc |-> exc, value |-> JNull]

\* The GraphQL branch.  `'data' in raw_data` is a key test on an object, an
\* element test on a list, a TypeError on a number; under `data` the names
\* characters and countries are looked for before the first key is taken.
\* A `data` that is not an object makes the `in` test or the indexing raise.
Unwrap(raw_data) ==
    IF raw_data.t = "num" THEN Throws("TypeError")
    ELSE IF ~(IsDict(raw_data) /\ HasField(raw_data, "data")) THEN Returns(raw_data)
    ELSE LET data == Field(raw_data, "data")
         IN  IF ~IsDict(data) THEN Throws("TypeError")
             ELSE IF HasField(data, "characters")
             THEN LET c == Field(data, "characters")
                  IN  IF IsDict(c)
                      THEN IF HasField(c, "results") THEN Returns(Field(c, "results"))
                           ELSE Throws("KeyError")
                      ELSE Throws("TypeError")
             ELSE IF HasField(data, "countries")
             THEN Returns(Field(data, "countries"))
             ELSE IF FirstKey(data) # "" THEN Returns(Field(data, FirstKey(data)))
             ELSE Returns(raw_data)

\* `for key in ['results', 'items', 'data']`: the first of them that holds a
\* list gives the items, else the object is the only item
ListKeys == <<"results", "items", "data">>
Items(w) ==
    IF IsList(w) THEN w.v
    ELSE LET holds == {k \in 1 .. Len(ListKeys) :
                          HasField(w, ListKeys[k]) /\ IsList(Field(w, ListKeys[k]))}
         IN  IF holds = {} THEN <<w>>
             ELSE Field(w, ListKeys[CHOOSE k \in holds : \A j \in holds : k <= j]).v

\* pd.json_normalize on one object: the fields that are not objects keep
\* their place, the fields of nested objects follow under dotted names (a
\* column name is the path of keys); lists are left as they are
RECURSIVE Nested(_, _)
Nested(pairs, prefix) ==
    IF pairs = <<>> THEN <<>>
    ELSE LET key == Append(prefix, pairs[1][1])
             val == pairs[1][2]
         IN  (IF IsDict(val) THEN Nested(val.v, key) ELSE << <<key, val>> >>)
             \o Nested(Tail(pairs), prefix)

Flatten(obj) ==
    LET IsTop(pair) == ~IsDict(pair[2])
        IsSub(pair) == IsDict(pair[2])
    IN  Nested(SelectSeq(obj.v, IsTop), <<>>) \o Nested(SelectSeq(obj.v, IsSub), <<>>)

HasColumn(row, col) == \E k \in 1 .. Len(row) : row[k][1] = col
Cell(row, col) ==
    IF HasColumn(row, col)
    THEN row[CHOOSE k \in 1 .. Len(row) : row[k][1] = col][2]
    ELSE JNull

\* the columns of the frame: every name, in the order first seen
RECURSIVE Columns(_, _)
Columns(rows, seen) ==
    IF rows = <<>> THEN seen
    ELSE LET IsNew(pair) == \A k \in 1 .. Len(seen) : seen[k] # pair[1]
             new == SelectSeq(rows[1], IsNew)
         IN  Columns(Tail(rows), seen \o [k \in 1 .. Len(new) |-> new[k][1]])

\* json_normalize, NaN to None, to_dict(orient='records'): one record per
\* item, each with every column
Records(items) ==
    LET rows == [k \in 1 .. Len(items) |-> Flatten(items[k])]
        cols == Columns(rows, <<>>)
    IN  [k \in 1 .. Len(items) |->
            [c \in 1 .. Len(cols) |-> <<cols[c], Cell(rows[k], cols[c])>>]]

\* the try block of transform_data
TransformBody(raw_data, api_type) ==
    LET un == IF api_type = "GraphQL" THEN Unwrap(raw_data) ELSE Returns(raw_data)
    IN  IF un.raised THEN [raised |-> TRUE, exc |-> un.exc, records |-> <<>>]
        ELSE IF ~(IsList(un.value) \/ IsDict(un.value))
        THEN [raised |-> FALSE, exc |-> "none", records |-> <<>>]
        ELSE [raised |-> FALSE, exc |-> "none", records |-> Records(Items(un.value))]

\* (faulty variant: a handler for KeyError only)
TransformExceptKeyError(exc) == exc = "KeyError"

\* `except Exception` of transform_data
TransformExcept(exc) == TRUE

\* transform_data, by the records it returns
transform_records(raw_data, api_type) ==
    IF Falsy(raw_data) THEN [raised |-> FALSE, exc |-> "none", records |-> <<>>]
    ELSE LET out == TransformBody(raw_data, api_type)
         IN  IF out.raised /\ TransformExcept(out.exc)
             THEN [raised |-> FALSE, exc |-> "none", records |-> <<>>]
             ELSE out

\* The payloads handed to transform_data: a value, bare or under the key
\* `wrap` of a GraphQL envelope {"data": {wrap: value}}.  Lists hold objects,
\* as json_normalize expects.
Person == JObj(<< <<"name", JStr(<<"rick">>)>> >>)
Place == JObj(<< <<"name", JStr(<<"X">>)>>,
                 <<"geo", JObj(<< <<"lat", JNum(1)>> >>)>>,
                 <<"tags", JList(<<JStr(<<"a">>), JNum(2)>>)>> >>)
Values ==
    << JNull, JNum(0), JNum(5), JStr(<<>>), JStr(<<"s">>), JList(<<>>), JObj(<<>>),
       JList(<<Person>>), JList(<<Person, Place>>),
       JObj(<< <<"results", JList(<<Person>>)>> >>),
       JObj(<< <<"info", JObj(<< <<"count", JNum(1)>> >>)>>,
               <<"results", JList(<<Person, Place>>)>> >>),
       JObj(<< <<"items", JList(<<Place>>)>> >>),
       JObj(<< <<"results", JStr(<<"s">>)>> >>),
       Person >>
Wraps == {"none", "characters", "countries", "launches"}

RawData(arg) ==
    IF arg.wrap = "none" THEN Values[arg.value]
    ELSE JObj(<< <<"data", JObj(<< <<arg.wrap, Values[arg.value]>> >>)>> >>)

\* a unit is about to transform some payload of a REST or a GraphQL source
InitTransform ==
    /\ InitPipeline
    /\ call \in {[fn |-> "transform_data", st |-> "called", arg |-> a,
                   result |-> 0] :
                      a \in [api_type : {"REST", "GraphQL"}, wrap : Wraps,
                             value : 1 .. Len(Values)]}

Transform ==
    /\ call.fn = "transform_data"
    /\ call.st = "called"
    /\ call' = [call EXCEPT !.st = "returned",
                            !.result = transform_records(RawData(call.arg),
                                                         call.arg.api_type)]
    /\ UNCHANGED <<pipeline, sched>>

NextTransform == Transform

SpecTransform == InitTransform /\ [][NextTransform]_vars

(* ------------------- store_data and get_table_data -------------------- *)
Digits == <<"0", "1", "2", "3", "4", "5", "6", "7", "8", "9">>

\* json.dumps with its default separators ", " and ": "
RECURSIVE Dumps(_), DumpsItems(_), DumpsPairs(_)
Dumps(x) ==
    CASE x.t = "null" -> <<"null">>
      [] x.t = "num" -> <<Digits[x.v + 1]>>
      [] x.t = "str" -> <<"\"">> \o x.v \o <<"\"">>
      [] x.t = "list" -> <<"[">> \o DumpsItems(x.v) \o <<"]">>
      [] x.t = "obj" -> <<"{">> \o DumpsPairs(x.v) \o <<"}">>
DumpsItems(items) ==
    IF items = <<>> THEN <<>>
    ELSE IF Len(items) = 1 THEN Dumps(items[1])
    ELSE Dumps(items[1]) \o <<",", " ">> \o DumpsItems(Tail(items))
DumpsPairs(pairs) ==
    IF pairs = <<>> THEN <<>>
    ELSE LET one == <<"\"", pairs[1][1], "\"", ":", " ">> \o Dumps(pairs[1][2])
         IN  IF Len(pairs) = 1 THEN one
             ELSE one \o <<",", " ">> \o DumpsPairs(Tail(pairs))

\* json.loads: a parser by recursive descent.  Each step gives the value
\* read and the text left, or fails.
Parsed(value, rest) == [ok |-> TRUE, value |-> value, rest |-> rest]
ParseError == [ok |-> FALSE, value |-> JNull, rest |-> <<>>]

RECURSIVE SkipSpace(_)
SkipSpace(ts) == IF ts # <<>> /\ Head(ts) = " " THEN SkipSpace(Tail(ts)) ELSE ts

\* the position of the quote that closes a string
Closing(ts) == {k \in 1 .. Len(ts) : ts[k] = "\""}

RECURSIVE ParseValue(_), ParseItems(_, _), ParsePairs(_, _)
ParseValue(text) ==
    LET ts == SkipSpace(text)
    IN  IF ts = <<>> THEN ParseError
        ELSE IF Head(ts) = "null" THEN Parsed(JNull, Tail(ts))
        ELSE IF \E d \in 1 .. Len(Digits) : Digits[d] = Head(ts)
        THEN Parsed(JNum((CHOOSE d \in 1 .. Len(Digits) : Digits[d] = Head(ts)) - 1),
                    Tail(ts))
        ELSE IF Head(ts) = "\""
        THEN LET close == Closing(Tail(ts))
             IN  IF close = {} THEN ParseError
                 ELSE LET k == CHOOSE c \in close : \A e \in close : c <= e
                      IN  Parsed(JStr(SubSeq(Tail(ts), 1, k - 1)),
                                 SubSeq(Tail(ts), k + 1, Len(Tail(ts))))
        ELSE IF Head(ts) = "["
        THEN IF SkipSpace(Tail(ts)) # <<>> /\ Head(SkipSpace(Tail(ts))) = "]"
             THEN Parsed(JList(<<>>), Tail(SkipSpace(Tail(ts))))
             ELSE ParseItems(Tail(ts), <<>>)
        ELSE IF Head(ts) = "{"
        THEN IF SkipSpace(Tail(ts)) # <<>> /\ Head(SkipSpace(Tail(ts))) = "}"
             THEN Parsed(JObj(<<>>), Tail(SkipSpace(Tail(ts))))
             ELSE ParsePairs(Tail(ts), <<>>)
        ELSE ParseError
ParseItems(text, acc) ==
    LET item == ParseValue(text)
        ts == SkipSpace(item.rest)
    IN  IF ~item.ok \/ ts = <<>> THEN ParseError
        ELSE IF Head(ts) = "]" THEN Parsed(JList(Append(acc, item.value)), Tail(ts))
        ELSE IF Head(ts) = "," THEN ParseItems(Tail(ts), Append(acc, item.value))
        ELSE ParseError
ParsePairs(text, acc) ==
    LET key == ParseValue(text)
        colon == SkipSpace(key.rest)
    IN  IF ~key.ok \/ key.value.t # "str" \/ Len(key.value.v) # 1 THEN ParseError
        ELSE IF colon = <<>> \/ Head(colon) # ":" THEN ParseError
        ELSE LET val == ParseValue(Tail(colon))
                 ts == SkipSpace(val.rest)
                 pair == <<key.value.v[1], val.value>>
             IN  IF ~val.ok \/ ts = <<>> THEN ParseError
                 ELSE IF Head(ts) = "}" THEN Parsed(JObj(Append(acc, pair)), Tail(ts))
                 ELSE IF Head(ts) = "," THEN ParsePairs(Tail(ts), Append(acc, pair))
                 ELSE ParseError

\* json.loads raises on a text it cannot read to its end
Loads(text) ==
    LET out == ParseValue(text)
    IN  IF out.ok /\ SkipSpace(out.rest) = <<>> THEN out ELSE ParseError

\* (faulty variant: only maps are looked for)
IsCompositeDict(x) == IsDict(x)

\* isinstance(x, (list, dict))
IsComposite(x) == IsList(x) \/ IsDict(x)

\* store_data: the frame handed to to_sql.  A column with a list or a map in
\* any row is replaced by the json.dumps of each of its values, None kept.
Frame(data) ==
    LET Complex(c) == \E k \in 1 .. Len(data) : IsComposite(data[k][c][2])
    IN  [k \in 1 .. Len(data) |->
            [c \in 1 .. Len(data[k]) |->
                LET x == data[k][c][2]
                IN  <<data[k][c][1],
                      IF Complex(c) /\ x.t # "null" THEN JStr(Dumps(x)) ELSE x>>]]

\* get_table_data: a string in braces or brackets is read with json.loads
\* and replaced by what it decodes to, unless json.loads fails
Decoded(value) ==
    IF /\ value.t = "str"
       /\ value.v # <<>>
       /\ \/ Head(value.v) = "{" /\ Last(value.v) = "}"
          \/ Head(value.v) = "[" /\ Last(value.v) = "]"
    THEN IF Loads(value.v).ok THEN Loads(value.v).value ELSE value
    ELSE value

ReadRows(frame) ==
    [k \in 1 .. Len(frame) |->
        [c \in 1 .. Len(frame[k]) |-> <<frame[k][c][1], Decoded(frame[k][c][2])>>]]

\* the field values of the records handed to store_data
Cells ==
    << JNull, JNum(5), JStr(<<"s">>), JStr(<<"[", "s", "]">>), JList(<<>>),
       JList(<<JStr(<<"a", ",", "b">>), JNum(2), JList(<<JNull>>)>>),
       JObj(<< <<"k", JList(<<JNull, JStr(<<>>)>>)>> >>),
       JObj(<< <<"k", JObj(<< <<"j", JNum(1)>> >>)>>, <<"l", JStr(<<"}">>)>> >>) >>

\* one or two records with the columns x and y
Data(arg) ==
    LET first == << <<"x", Cells[arg.a]>>, <<"y", Cells[arg.b]>> >>
        second == << <<"x", Cells[arg.c]>>, <<"y", Cells[arg.a]>> >>
    IN  IF arg.rows = 1 THEN <<first>> ELSE <<first, second>>

\* a unit is about to store some records
InitStore ==
    /\ InitPipeline
    /\ call \in {[fn |-> "store_data", st |-> "called", arg |-> a,
                   frame |-> <<>>, read |-> <<>>] :
                      a \in [rows : {1, 2}, a : 1 .. Len(Cells), b : 1 .. Len(Cells),
                             c : 1 .. Len(Cells)]}

\* store_data writes the frame
StoreData ==
    /\ call.fn = "store_data"
    /\ call.st = "called"
    /\ call' = [call EXCEPT !.st = "stored", !.frame = Frame(Data(call.arg))]
    /\ UNCHANGED <<pipeline, sched>>

\* a consumer reads the table through get_table_data
GetTableData ==
    /\ call.fn = "store_data"
    /\ call.st = "stored"
    /\ call' = [call EXCEPT !.st = "read", !.read = ReadRows(call.frame)]
    /\ UNCHANGED <<pipeline, sched>>

NextStore == StoreData \/ GetTableData

SpecStore == InitStore /\ [][NextStore]_vars

(* ------------------------------ the claims ---------------------------- *)
RECURSIVE SumLen(_)
SumLen(chunks) == IF chunks = <<>> THEN 0
                  ELSE chunks[1].len + SumLen(Tail(chunks))

FetchDone(r, i) == fetch[r][i].st = "done"
InFetch(r) == {i \in Sources(r) : fetch[r][i].st = "in_fetch"}
TableOf(r, i) == apis[r][i].table_name
LabelOf(r, i) == apis[r][i].label

\* the unit of source i wrote every chunk and returned its row count
Stored(r, i) == unit[r][i].st = "done" /\ unit[r][i].success

\* the collection loop has passed the unit of source i
Collected(r, i) == \E k \in 1 .. (next_future[r] - 1) : futures[r][k] = i

\* no other source writes to the table, resp. reports under the label, of
\* source i
Exclusive(r, i) ==
    \A r2 \in Runs : \A j \in Sources(r2) :
        <<r2, j>> # <<r, i>> => TableOf(r2, j) # TableOf(r, i)
LabelUnique(r, i) ==
    \A j \in Sources(r) : j # i => LabelOf(r, j) # LabelOf(r, i)

\* C1: the report returned by process_apis has an entry for every submitted
\* source: the number of records written if the source was stored, and 0 if
\* its fetch, transform or store failed.
C1_ReportHasEverySource ==
    \A r \in Runs : pc[r] = "done" =>
        \A i \in Sources(r) :
            /\ HasKey(results[r], LabelOf(r, i))
            /\ DictGet(results[r], LabelOf(r, i)) =
                   IF Stored(r, i) THEN unit[r][i].n ELSE 0

\* C2: a fetch all of whose attempts failed at transport level (connection
\* error or timeout) made exactly retry_attempts attempts and then returned
\* the absence outcome.
C2_TransportFailureUsesBudget ==
    \A r \in Runs : \A i \in Sources(r) :
        (/\ FetchDone(r, i)
         /\ \A k \in 1 .. Len(fetch[r][i].log) :
                fetch[r][i].log[k].kind \in {"transport", "timeout"})
        => /\ fetch[r][i].tries = apis[r][i].retry_attempts
           /\ ~fetch[r][i].raised
           /\ fetch[r][i].payload = None

\* C3: a non-200 response is retried like a transport error: a fetch that
\* ends in absence after a non-200 response has used up its budget of
\* retry_attempts attempts.
C3_Non200UsesBudget ==
    \A r \in Runs : \A i \in Sources(r) :
        (FetchDone(r, i) /\ Last(fetch[r][i].log).kind = "non200")
        => /\ fetch[r][i].tries = apis[r][i].retry_attempts
           /\ fetch[r][i].payload = None

\* C4: in every reachable state, at most API_RATE_LIMIT fetches of one run
\* are inside the HTTP exchange, however many sources the run has.
C4_RunFetchesBounded ==
    \A r \in Runs : Cardinality(InFetch(r)) <= API_RATE_LIMIT

\* a run with more sources than slots has every slot taken and a fetch waiting
C4_Witness ==
    \E r \in Runs :
        /\ Len(apis[r]) > API_RATE_LIMIT
        /\ Cardinality(InFetch(r)) = API_RATE_LIMIT
        /\ \E i \in Sources(r) : fetch[r][i].st = "waiting"

\* C5: in every reachable state, at most API_RATE_LIMIT fetches are inside
\* the HTTP exchange in the whole process, over all overlapping runs.
C5_AllFetchesBounded ==
    Cardinality({ri \in Runs \X (1 .. MaxSources) :
                    ri[2] \in InFetch(ri[1])}) <= API_RATE_LIMIT

\* C6: fetch_data never raises: a finished fetch holds the decoded body of
\* a 200 response, and the absent payload after a transport error, a
\* timeout, a non-200 status or an undecodable body.
C6_FetchDataNeverRaises ==
    \A r \in Runs : \A i \in Sources(r) :
        FetchDone(r, i) =>
            /\ ~fetch[r][i].raised
            /\ fetch[r][i].payload =
                   IF Last(fetch[r][i].log).kind = "ok"
                   THEN Last(fetch[r][i].log).body
                   ELSE None

\* one fetch of a run ended on an undecodable body, another on a timeout or
\* a decoded list
C6_Witness ==
    \E r \in Runs : \E i, j \in Sources(r) :
        /\ FetchDone(r, i) /\ Last(fetch[r][i].log).kind = "badjson"
        /\ fetch[r][i].payload = None
        /\ FetchDone(r, j)
        /\ Last(fetch[r][j].log) = [kind |-> "ok", body |-> [shape |-> "list", n |-> 1]]
        /\ fetch[r][j].payload.n = 1

\* this step is a chunk written by the unit of source i
WroteChunk(r, i) ==
    /\ i \in Sources(r)
    /\ unit[r][i].st = "storing"
    /\ Len(unit'[r][i].chunks) = Len(unit[r][i].chunks) + 1

Appended(r, i) ==
    tables'[TableOf(r, i)].rows =
        [tables[TableOf(r, i)].rows EXCEPT
            ![<<r, i>>] = @ + Last(unit'[r][i].chunks).len]

Replaced(r, i) ==
    tables'[TableOf(r, i)].rows =
        [o \in Owners |-> IF o = <<r, i>> THEN Last(unit'[r][i].chunks).len ELSE 0]

C8_ChunkedStore ==
    \A r \in Runs : \A i \in Sources(r) :
        Stored(r, i) =>
            LET u == unit[r][i]
                c == u.chunks
            IN  /\ Len(c) = (u.n + chunk_size - 1) \div chunk_size
                /\ \A k \in 1 .. Len(c) :
                       /\ c[k].off = (k - 1) * chunk_size
                       /\ c[k].len <= chunk_size
                       /\ k < Len(c) => c[k].len = chunk_size
                       /\ k > 1 => c[k].if_exists = "append" /\ ~c[k].created
                /\ SumLen(c) = u.n
                /\ (~u.listed /\ Exclusive(r, i)) =>
                       /\ c[1].created
                       /\ tables[TableOf(r, i)].rows =
                              [o \in Owners |-> IF o = <<r, i>> THEN u.n ELSE 0]

\* 2500 records went into a fresh table in three chunks
C8_Witness ==
    \E r \in Runs : \E i \in Sources(r) :
        /\ Stored(r, i)
        /\ unit[r][i].n = 2500
        /\ ~unit[r][i].listed
        /\ Exclusive(r, i)
        /\ Len(unit[r][i].chunks) = 3
        /\ unit[r][i].chunks[3].len = 500

\* C9: when writing chunk j of a source fails, the call ends there: no
\* later chunk is written and the write is not tried again, the chunks
\* before j stay in the table, and the report entry of the source is 0.
C9_StoreFailure ==
    \A r \in Runs : \A i \in Sources(r) :
        unit[r][i].failed_at > 0 =>
            LET u == unit[r][i]
            IN  /\ u.st = "done"
                /\ Len(u.chunks) = u.failed_at - 1
                /\ u.ret = 0
                /\ Exclusive(r, i) =>
                       tables[TableOf(r, i)].rows[<<r, i>>] = SumLen(u.chunks)
                /\ pc[r] = "done" => Collected(r, i)
                /\ (Collected(r, i) /\ LabelUnique(r, i)) =>
                       /\ HasKey(results[r], LabelOf(r, i))
                       /\ DictGet(results[r], LabelOf(r, i)) = 0

\* the third chunk of a source failed, two chunks are in its table and the
\* returned report holds 0 for it
C9_Witness ==
    \E r \in Runs : \E i \in Sources(r) :
        /\ unit[r][i].failed_at = 3
        /\ Exclusive(r, i) /\ LabelUnique(r, i)
        /\ tables[TableOf(r, i)].rows[<<r, i>>] = 2 * chunk_size
        /\ pc[r] = "done"
        /\ DictGet(results[r], LabelOf(r, i)) = 0

\* C10: what a run leaves for one source does not depend on the other
\* sources, also when they share a label or a table: when the run has
\* returned, the report entry of a source is its own row count (0 when its
\* unit failed) and the rows a stored source wrote are in its table.
C10_SourcesIsolated ==
    \A r \in Runs : pc[r] = "done" =>
        \A i \in Sources(r) :
            Collected(r, i) =>
                /\ DictGet(results[r], LabelOf(r, i)) = unit[r][i].ret
                /\ Stored(r, i) =>
                       tables[TableOf(r, i)].rows[<<r, i>>] = unit[r][i].n

\* where source i of run r stands in the state machine of a source
Stage(r, i) ==
    LET f == fetch[r][i]
        u == unit[r][i]
    IN  CASE u.st = "queued" -> "FETCHED"
          [] u.st = "transformed" -> "TRANSFORMED"
          [] u.st = "storing" -> "STORING"
          [] u.st = "done" -> IF u.n = 0 THEN "TRANSFORM_FAILED"
                              ELSE IF u.success THEN "STORED" ELSE "STORE_FAILED"
          [] f.st = "pending" -> "PENDING"
          [] f.st \in {"waiting", "in_fetch"} -> "FETCHING"
          [] f.st = "cancelled" -> "CANCELLED"
          [] OTHER -> IF f.raised \/ f.payload = None THEN "FETCH_FAILED"
                      ELSE "FETCHED"

StageEdges ==
    {<<"PENDING", "FETCHING">>, <<"PENDING", "CANCELLED">>,
     <<"FETCHING", "FETCHED">>, <<"FETCHING", "FETCH_FAILED">>,
     <<"FETCHING", "CANCELLED">>,
     <<"FETCHED", "TRANSFORMED">>, <<"FETCHED", "TRANSFORM_FAILED">>,
     <<"TRANSFORMED", "STORING">>, <<"TRANSFORMED", "STORE_FAILED">>,
     <<"STORING", "STORED">>, <<"STORING", "STORE_FAILED">>}

\* a unit exists only for a finished fetch that gave a present payload, and
\* works on that payload; it stores only a non-empty transform result
StageOrder(r, i) ==
    LET f == fetch[r][i]
        u == unit[r][i]
    IN  /\ u.st # "none" =>
            /\ f.st = "done" /\ ~f.raised
            /\ f.payload # None /\ Truthy(f.payload)
            /\ u.payload = f.payload
        /\ (u.st \in {"transformed", "storing"} \/ u.chunks # <<>>) =>
            /\ u.n > 0
            /\ u.n = transform_data(u.payload)

\* C11: for each source the stages happen in the order of the state machine:
\* the fetch is complete before the transform starts, the transform is
\* complete before the store starts, a transform starts only on a present
\* fetched payload, a store starts only on a non-empty transform result, and
\* no step takes a source back to a stage or across one.
C11_StagesInOrder ==
    [][/\ \A r \in Runs : \A i \in Sources(r) :
            \/ Stage(r, i)' = Stage(r, i)
            \/ <<Stage(r, i), Stage(r, i)'>> \in StageEdges
       /\ \A r \in Runs : \A i \in Sources(r)' : StageOrder(r, i)']_vars

\* one source went through fetch, transform and store, a sibling stopped at
\* its fetch
C11_Witness ==
    \E i, j \in Sources(1) :
        /\ Stage(1, i) = "STORED" /\ Len(unit[1][i].chunks) > 1
        /\ Stage(1, j) = "FETCH_FAILED"

\* C12: process_apis returns its report only after every submitted unit has
\* ended and been collected, and a run whose fetches and units terminate
\* eventually returns: a run that was started ends (with the report unless
\* it is cancelled while it fetches), and a run that has submitted its
\* units returns, whether they stored their rows or failed.
C12_ReturnsAfterAllUnits ==
    /\ [](\A r \in Runs : pc[r] = "done" =>
            \A k \in 1 .. Len(futures[r]) :
                /\ unit[r][futures[r][k]].st = "done"
                /\ Collected(r, futures[r][k]))
    /\ \A r \in {1} :
        /\ [](pc[r] \in {"started", "gather"} => <>(pc[r] \in {"done", "cancelled"}))
        /\ [](pc[r] = "pool" => <>(pc[r] = "done"))

\* a returned run with two units, one that stored and one that failed
C12_Witness ==
    /\ pc[1] = "done"
    /\ \E i, j \in Sources(1) :
        /\ Stored(1, i) /\ Collected(1, i)
        /\ unit[1][j].st = "done" /\ ~unit[1][j].success /\ Collected(1, j)

\* the keys of the report of run r, in the order of the dict
ReportKeys(r) == [k \in 1 .. Len(results[r]) |-> results[r][k].key]

\* C13: the order of the keys of the returned report is the order in which
\* the units completed (sources with distinct labels).
C13_KeysInCompletionOrder ==
    \A r \in Runs :
        (pc[r] = "done" /\ \A i \in Sources(r) : LabelUnique(r, i)) =>
            ReportKeys(r) = [k \in 1 .. Len(completed[r]) |->
                                LabelOf(r, completed[r][k])]

\* the host component of a URL: what follows the first "//" (the whole URL
\* when it has no scheme), up to the next "/"
UrlHost(url) ==
    LET starts == {k \in 1 .. (Len(url) - 1) : SubSeq(url, k, k + 1) = <<"/", "/">>}
        from == IF starts = {} THEN 1
                ELSE (CHOOSE h \in starts : \A g \in starts : h <= g) + 2
        ends == {k \in from .. Len(url) : url[k] = "/"}
        to == IF ends = {} THEN Len(url)
              ELSE (CHOOSE h \in ends : \A g \in ends : h <= g) - 1
    IN  SubSeq(url, from, to)

\* C14: constructing an ApiConfig raises exactly when the url is empty, the
\* kind is neither REST nor GraphQL, or the kind is GraphQL and the query is
\* empty or missing; otherwise it succeeds, a missing label is the host of
\* the URL, and a missing table_name is the label in lower case with "." and
\* "-" replaced by "_".
C14_ConstructionValidates ==
    (call.fn = "ApiConfig" /\ call.st = "returned") =>
        LET kw == call.arg
            out == call.result
        IN  /\ out.raised <=>
                \/ kw.url \in {<<>>, NoneUrl}
                \/ kw.api_type \notin {"REST", "GraphQL"}
                \/ kw.api_type = "GraphQL" /\ kw.query = <<>>
            /\ ~out.raised =>
                /\ out.label = IF kw.label # <<>> THEN kw.label ELSE UrlHost(kw.url)
                /\ out.table_name =
                       IF kw.table_name # <<>> THEN kw.table_name
                       ELSE Replace(Replace(Lower(out.label), ".", "_"), "-", "_")

\* what the records of a working payload are, whatever key it came under:
\* the elements of a list, the elements of the `results` list of an object
\* that holds one, else the payload itself
Working(x) ==
    IF IsList(x) THEN Records(x.v)
    ELSE IF IsDict(x) /\ HasField(x, "results") /\ IsList(Field(x, "results"))
    THEN Records(Field(x, "results").v)
    ELSE TransformBody(x, "REST").records

\* C15: for a GraphQL source transform_data unwraps {"data": {<key>: x}} the
\* same way for every key name: a list x gives its elements as records, an
\* object x holding a `results` list gives the elements of `results`, and
\* any other x, the value of the first key, is the working payload.
C15_UnwrapsEveryKey ==
    (/\ call.fn = "transform_data" /\ call.st = "returned"
     /\ call.arg.api_type = "GraphQL" /\ call.arg.wrap # "none") =>
        /\ ~call.result.raised
        /\ call.result.records = Working(Values[call.arg.value])

\* the working payload of a call: the value under the key of the envelope
\* for a GraphQL source, else the payload as given
WorkingPayload(arg) ==
    IF arg.api_type = "GraphQL" /\ arg.wrap # "none" THEN Values[arg.value]
    ELSE RawData(arg)

\* C16: transform_data never raises, and returns no record when the payload
\* is null, {} or [] (or any falsy value), when the working payload is
\* neither an object nor a list, and when its try block raised.
C16_TransformNeverRaises ==
    (call.fn = "transform_data" /\ call.st = "returned") =>
        LET raw == RawData(call.arg)
            w == WorkingPayload(call.arg)
        IN  /\ ~call.result.raised
            /\ Falsy(raw) => call.result.records = <<>>
            /\ ~(IsList(w) \/ IsDict(w)) => call.result.records = <<>>
            /\ (~Falsy(raw) /\ TransformBody(raw, call.arg.api_type).raised) =>
                   call.result.records = <<>>

\* a call whose try block raised a TypeError (a list where an object with
\* `results` was expected) and that returned no record
C16_Witness ==
    /\ call.fn = "transform_data" /\ call.st = "returned"
    /\ ~Falsy(RawData(call.arg))
    /\ TransformBody(RawData(call.arg), call.arg.api_type).raised
    /\ TransformBody(RawData(call.arg), call.arg.api_type).exc = "TypeError"
    /\ call.result = [raised |-> FALSE, exc |-> "none", records |-> <<>>]

\* C17: store_data writes every field that holds a list or a map as the
\* JSON text of the value, json.loads of the text is the value again, a
\* consumer reading the table gets the value back, and no list or map is
\* in the frame handed to the table write.
C17_CompositesRoundTrip ==
    (call.fn = "store_data" /\ call.st # "called") =>
        LET data == Data(call.arg)
        IN  \A k \in 1 .. Len(data) : \A c \in 1 .. Len(data[k]) :
                LET x == data[k][c][2]
                    y == call.frame[k][c][2]
                IN  /\ ~IsList(y) /\ ~IsDict(y)
                    /\ (IsList(x) \/ IsDict(x)) =>
                        /\ y.t = "str"
                        /\ y.v = Dumps(x)
                        /\ Loads(y.v).ok
                        /\ Loads(y.v).value = x
                        /\ call.st = "read" => call.read[k][c][2] = x

\* a record with a list of mixed values in one field and a nested map in
\* the other was stored and read back
C17_Witness ==
    /\ call.fn = "store_data" /\ call.st = "read"
    /\ call.arg.rows = 2
    /\ Cells[call.arg.a].t = "list" /\ Len(Cells[call.arg.a].v) = 3
    /\ Cells[call.arg.b].t = "obj" /\ Len(Cells[call.arg.b].v) = 2
    /\ call.read[1][1][2] = Cells[call.arg.a]
    /\ call.read[1][2][2] = Cells[call.arg.b]

\* C18: a run that was cancelled still ends with a report that has an entry
\* for every source, 0 for each source whose fetch or unit was cancelled.
C18_CancelledRunReports ==
    \A r \in Runs : pc[r] = "cancelled" =>
        \A i \in Sources(r) :
            /\ HasKey(results[r], LabelOf(r, i))
            /\ fetch[r][i].st = "cancelled" => DictGet(results[r], LabelOf(r, i)) = 0

\* C19: no unit of a run is submitted before every fetch of the run has
\* its outcome, and the step in which a fetch ends, with a payload or with
\* a failure, changes nothing in the sibling fetches, each of which gets the
\* outcome of its own exchange.
C19_FetchBarrier ==
    [][\A r \in Runs :
        /\ (\E i \in Sources(r)' : unit'[r][i].st # "none") =>
               \A j \in Sources(r)' : fetch'[r][j].st = "done"
        /\ \A i \in Sources(r) :
               (fetch[r][i].st = "in_fetch" /\ fetch'[r][i].st = "done") =>
                   /\ \A j \in Sources(r) \ {i} : fetch'[r][j] = fetch[r][j]
                   /\ fetch'[r][i].payload =
                          IF Last(fetch'[r][i].log).kind = "ok"
                          THEN Last(fetch'[r][i].log).body ELSE None]_vars

\* the units of a run are submitted: one fetch failed, its sibling has a
\* payload and a unit
C19_Witness ==
    /\ pc[1] = "pool"
    /\ \E i, j \in Sources(1) :
        /\ Last(fetch[1][i].log).kind \in FailureKinds
        /\ fetch[1][i].payload = None /\ unit[1][i].st = "none"
        /\ Last(fetch[1][j].log).kind = "ok" /\ unit[1][j].st = "queued"
        /\ Len(fetch[1][i].log) = 1 /\ Len(fetch[1][j].log) = 1

\* C20: at most WORKER_THREADS units of a run execute at the same time,
\* however many were submitted; the others wait in the queue; a unit
\* leaves the queue once, ends once and is not touched after its end, and
\* when the run returns every submitted unit has ended.
C20_PoolBounded ==
    [][\A r \in Runs :
        /\ Cardinality(Executing(r))' <= WORKER_THREADS
        /\ \A i \in Sources(r) :
               /\ unit'[r][i].st = "queued" => unit[r][i].st \in {"none", "queued"}
               /\ unit[r][i].st = "done" => unit'[r][i] = unit[r][i]
        /\ \A k, m \in 1 .. Len(completed'[r]) :
               completed'[r][k] = completed'[r][m] => k = m
        /\ pc'[r] = "done" =>
               \A k \in 1 .. Len(futures'[r]) :
                   /\ unit'[r][futures'[r][k]].st = "done"
                   /\ \E m \in 1 .. Len(completed'[r]) :
                          completed'[r][m] = futures'[r][k]]_vars

\* every worker is busy and a submitted unit waits in the queue
C20_Witness ==
    /\ Cardinality(Executing(1)) = WORKER_THREADS
    /\ \E i \in Sources(1) : unit[1][i].st = "queued"
    /\ Len(futures[1]) > WORKER_THREADS

\* source i of run r has ended without a record: its fetch gave nothing to
\* submit, or its unit transformed the payload to nothing
EndedEmpty(r, i) ==
    /\ fetch[r][i].st = "done"
    /\ \/ ~Submitted(r, i)
       \/ unit[r][i].st = "done" /\ transform_data(unit[r][i].payload) = 0

\* C21: a source whose fetch gave no payload, or whose transform gave no
\* record, writes nothing: no chunk, a row count of 0, no row of its own in
\* any table, and its table (when no other source writes to it) is as it
\* was when the process started, absent or with its old rows.
C21_EmptySourceWritesNothing ==
    \A r \in Runs : \A i \in Sources(r) :
        EndedEmpty(r, i) =>
            /\ unit[r][i].chunks = <<>>
            /\ unit[r][i].ret = 0
            /\ unit[r][i].st \in {"none", "done"}
            /\ \A t \in TableNames : tables[t].rows[<<r, i>>] = 0
            /\ (Collected(r, i) /\ LabelUnique(r, i)) =>
                   DictGet(results[r], LabelOf(r, i)) = 0
            /\ Exclusive(r, i) =>
                   tables[TableOf(r, i)] =
                       IF tables[TableOf(r, i)].exists THEN OldTable ELSE NoTable

\* a returned run: one source fetched nothing, the other a payload without
\* records, and the table with old rows, which both name, still has them
C21_Witness ==
    /\ pc[1] = "done"
    /\ \E i, j \in Sources(1) :
        /\ EndedEmpty(1, i) /\ fetch[1][i].payload = None
        /\ EndedEmpty(1, j) /\ unit[1][j].st = "done" /\ Collected(1, j)
        /\ TableOf(1, i) = "t1" /\ TableOf(1, j) = "t1"
    /\ tables["t1"] = OldTable

\* the description fails validation: no url, a kind that is not accepted,
\* or GraphQL without a query
Malformed(kw) ==
    \/ kw.url \in {<<>>, NoneUrl}
    \/ kw.api_type \notin {"REST", "GraphQL"}
    \/ kw.api_type = "GraphQL" /\ kw.query = <<>>

\* C22: when an element of the body of a /process request is malformed, the
\* request is answered with status 400 and no process_apis task is made,
\* whatever the other elements are.
C22_MalformedRejected ==
    (/\ call.fn = "trigger_processing" /\ call.st = "returned"
     /\ \E k \in 1 .. Len(call.arg) : Malformed(call.arg[k])) =>
        /\ call.result.status = 400
        /\ ~call.result.task
        /\ \A r \in Runs : pc[r] = "idle"

\* the fetches that hold a slot of semaphore s
Inside(s) ==
    {<<r, i>> \in Runs \X (1 .. MaxUnits) :
        i \in Sources(r) /\ fetch[r][i].st = "in_fetch" /\ fetch[r][i].sem = s}

\* C23: the slots of a rate limiter are conserved: for every semaphore that
\* a run has made, the free slots plus the fetches inside _do_fetch are the
\* N it was made with, whatever way the exchanges ended, and when every
\* fetch of the run is over all N slots are free.
C23_SlotsConserved ==
    \A s \in Runs :
        pc[s] \notin {"idle", "raised"} =>
            /\ sem[s] + Cardinality(Inside(s)) = API_RATE_LIMIT
            /\ sem[s] >= 0
            /\ (\A r \in Runs : pc[r] \in {"idle", "raised", "pool", "done", "cancelled"}) =>
                   sem[s] = API_RATE_LIMIT

\* every fetch of the run is over, one after a transport error and one
\* after a non-200 status, and every slot is free
C23_Witness ==
    /\ pc[1] = "pool"
    /\ sem[1] = API_RATE_LIMIT
    /\ \E i, j \in Sources(1) :
        /\ Last(fetch[1][i].log).kind \in {"transport", "timeout", "badjson"}
        /\ Last(fetch[1][j].log).kind = "non200"

\* C24: in the scheduler the source list is loaded whole or not at all: a
\* file with an entry that does not construct, or that is not JSON, gives
\* the empty list and a job that ends without calling process_apis, and
\* process_apis is called only with a list that is not empty and holds
\* nothing but constructed sources, one for each entry of the file.
C24_LoadAllOrNothing ==
    sched.jobs > 0 =>
        LET f == sched.file
            broken == \/ f.exists /\ ~f.parses
                      \/ \E k \in 1 .. Len(f.entries) : Malformed(f.entries[k])
        IN  /\ broken => (sched.apis = <<>> /\ ~sched.called /\ sched.last = "skipped")
            /\ sched.called =>
                   /\ sched.apis # <<>>
                   /\ \A k \in 1 .. Len(sched.apis) : ~sched.apis[k].raised
                   /\ f.exists => Len(sched.apis) = Len(f.entries)
            /\ sched.pc = "in_job" => sched.called

\* a job read a file whose first entry is good and whose second is not,
\* and ended without a call
C24_Witness ==
    /\ sched.jobs > 0
    /\ Len(sched.file.entries) = 2
    /\ ~Malformed(sched.file.entries[1])
    /\ Malformed(sched.file.entries[2])
    /\ sched.last = "skipped"

\* C25: the scheduler starts a job before it enters the loop; a signal only
\* clears the flag, so a job in progress goes on to its end; a job that
\* fails or is skipped hands control back to the loop; the loop that reads
\* the cleared flag exits, nothing happens after the exit, and once the
\* flag is cleared the loop does exit.
C25_SchedulerLoop ==
    /\ [](sched.pc \in {"loop", "pending", "sleep", "exited"} => sched.jobs >= 1)
    /\ [][/\ (sched.running /\ ~sched'.running) =>
               sched' = [sched EXCEPT !.running = FALSE, !.sig = sched'.sig]
          /\ (sched.pc = "in_job" /\ sched'.pc # "in_job") =>
               /\ sched'.last \in {"returned", "raised"}
               /\ sched'.pc = AfterJob(sched.ctx)
               /\ sched'.running = sched.running
          /\ (sched.pc = "loop" /\ ~sched.running) => sched'.pc = "exited"
          /\ sched'.pc = "exited" => (sched.pc = "loop" /\ ~sched.running)
          /\ sched'.jobs > sched.jobs => sched.pc = "job"]_vars
    /\ [](sched.pc = "in_job" => <>(sched.last \in {"returned", "raised"}))
    /\ []((~sched.running /\ sched.pc # "off") => <>(sched.pc = "exited"))

\* the loop has exited on SIGTERM after a job that failed and a later job
C25_Witness ==
    /\ sched.pc = "exited"
    /\ sched.sig = "SIGTERM"
    /\ sched.jobs = MaxJobs
    /\ sched.last = "raised"


====
